---- MODULE Spec2Model ----
(***************************************************************************)
(* Crossword CSP solver (generate.py, class CrosswordCreator): node        *)
(* consistency, AC-3, value/variable ordering and backtracking search.     *)
(*                                                                         *)
(* Words are sequences of letters (1 = "a", 2 = "b", ...); the character   *)
(* w[m] of the 0-based source is w[m + 1] here.  A Python dict is a        *)
(* function on a subset of the variables; None (no overlap) is <<>>.       *)
(***************************************************************************)
EXTENDS Integers, Sequences, FiniteSets, TLC

VARIABLES puz, vocab, so, domains, pc, stack, ret,
          arcs, k, dom, status, pre, arg, out

vars == <<puz, vocab, so, domains, pc, stack, ret,
          arcs, k, dom, status, pre, arg, out>>

----------------------------------------------------------------------------
(* Bounds of the model *)

\* largest vocabulary handed to the solver on the puzzles of up to four
\* variables (PuzzleVocabularies gives those of the two larger puzzles)
MaxVocab == 3

\* the words a vocabulary is drawn from: every two-letter word over {a, b}
\* and the three-letter words aaa, abb, bab, bba
WordUniverse ==
    { <<1, 1>>, <<1, 2>>, <<2, 1>>, <<2, 2>>,
      <<1, 1, 1>>, <<1, 2, 2>>, <<2, 1, 2>>, <<2, 2, 1>> }

Vocabularies == { W \in SUBSET WordUniverse : Cardinality(W) <= MaxVocab }

----------------------------------------------------------------------------
(* Puzzle Model (crossword.py: Variable, Crossword.overlaps, neighbors) *)

None == <<>>

\* single: one across slot of length 2
\* cross : across (0,0) and down (0,0), both of length 2, sharing cell (0,0)
\* mixed : across (0,0) of length 3, down (0,1) of length 2
\* arch  : grid  ### / #.#  ; 1 = across row 0 (length 3), 2 = down column 0,
\*         3 = down column 2 (both of length 2)
\* square: the full 2x2 grid; 1, 2 = rows, 3, 4 = columns
\* ladder: the full 2x3 grid; 1, 2 = rows (length 3), 3, 4, 5 = columns
\* comb  : grid  #.# / ### / .#. / .##  ; 1 = across row 1 (length 3),
\*         2 = across row 3 (length 2), 3 = down column 0 (length 2),
\*         4 = down column 1 (length 3), 5 = down column 2 (length 2)
PuzzleNames == {"single", "cross", "mixed", "arch", "square", "ladder", "comb"}

VarLengths(p) ==
    CASE p = "single" -> <<2>>
      [] p = "cross"  -> <<2, 2>>
      [] p = "mixed"  -> <<3, 2>>
      [] p = "arch"   -> <<3, 2, 2>>
      [] p = "square" -> <<2, 2, 2, 2>>
      [] p = "ladder" -> <<3, 3, 2, 2, 2>>
      [] p = "comb"   -> <<3, 2, 2, 3, 2>>

\* <<x, y, i, j>>: cell i of across slot x is cell j of down slot y
Crossings(p) ==
    CASE p = "single" -> {}
      [] p = "cross"  -> { <<1, 2, 0, 0>> }
      [] p = "mixed"  -> { <<1, 2, 1, 0>> }
      [] p = "arch"   -> { <<1, 2, 0, 0>>, <<1, 3, 2, 0>> }
      [] p = "square" -> { <<1, 3, 0, 0>>, <<1, 4, 1, 0>>,
                           <<2, 3, 0, 1>>, <<2, 4, 1, 1>> }
      [] p = "ladder" -> { <<1, 3, 0, 0>>, <<1, 4, 1, 0>>, <<1, 5, 2, 0>>,
                           <<2, 3, 0, 1>>, <<2, 4, 1, 1>>, <<2, 5, 2, 1>> }
      [] p = "comb"   -> { <<1, 3, 0, 1>>, <<1, 4, 1, 0>>, <<1, 5, 2, 1>>,
                           <<2, 4, 0, 2>> }

Variables == DOMAIN VarLengths(puz)

Length(v) == VarLengths(puz)[v]

\* the crossings, each seen from both of its slots
AllCrossings ==
    Crossings(puz) \cup { <<c[2], c[1], c[4], c[3]>> : c \in Crossings(puz) }

\* the pair of indices of the crossings S of two slots, None without one
PairOf(S) == IF S = {} THEN None ELSE CHOOSE o \in { <<c[3], c[4]>> : c \in S } : TRUE

\* crossword.overlaps[x, y]: None or the pair of indices
Overlaps(x, y) == PairOf({ c \in AllCrossings : c[1] = x /\ c[2] = y })

\* crossword.neighbors(var)
Neighbors(var) == { v \in Variables : v /= var /\ Overlaps(v, var) /= None }

----------------------------------------------------------------------------
(* Iteration orders.  A Python set is iterated in the order of its hash    *)
(* table, which differs from run to run and from set to set: so[S] is the  *)
(* order in which this run iterates the set S of variables, one order for  *)
(* each set the run iterates and none tied to another.  The order of a set *)
(* of words is chosen where the set is iterated.                           *)

Injective(f) == \A i, j \in DOMAIN f : i /= j => f[i] /= f[j]

Perms(S) == { f \in [1..Cardinality(S) -> S] : Injective(f) }

\* the sets of variables the program iterates: crossword.variables (line
\* 225, and the loops that fill crossword.overlaps), neighbors(var) (lines
\* 172, 193, 258) and neighbors(x) - {y} (line 146)
NeighborSets == { Neighbors(v) : v \in Variables }

DifferenceSets == UNION { { Neighbors(x) \ {y} : y \in Neighbors(x) } : x \in Variables }

IteratedSets == {Variables} \cup NeighborSets \cup DifferenceSets

\* every choice of an iteration order for each of the sets
RECURSIVE SetOrders(_)
SetOrders(sets) ==
    IF sets = {} THEN { <<>> }
    ELSE LET S == CHOOSE T \in sets : TRUE
         IN  { (S :> p) @@ f : p \in Perms(S), f \in SetOrders(sets \ {S}) }

\* the elements of the set S of variables, in iteration order
InOrder(S) == so[S]

\* the keys of crossword.overlaps, filled by two nested loops over variables
OverlapKeys ==
    LET vo == InOrder(Variables)
    IN  SelectSeq([t \in 1..(Len(vo) * Len(vo)) |->
                     <<vo[((t - 1) \div Len(vo)) + 1], vo[((t - 1) % Len(vo)) + 1]>>],
                  LAMBDA a : a[1] /= a[2])

RECURSIVE SumSeq(_)
SumSeq(s) == IF s = <<>> THEN 0 ELSE Head(s) + SumSeq(Tail(s))

----------------------------------------------------------------------------
(* enforce_node_consistency *)

\* line 106 with `<` for `!=`: only the words that are too short go
EnforceShortOnly(doms) ==
    [v \in DOMAIN doms |-> { w \in doms[v] : ~(Len(w) < Length(v)) }]

EnforceNodeConsistency(doms) ==
    [v \in DOMAIN doms |-> { w \in doms[v] : ~(Len(w) /= Length(v)) }]

----------------------------------------------------------------------------
(* revise *)

\* lines 121-125 with `all` for `any`: a word stays only if every word of y
\* agrees with it
RemoveAll(dx, dy, o) ==
    IF o /= None
    THEN { i \in dx : ~(\A y_element \in dy : i[o[1] + 1] = y_element[o[2] + 1]) }
    ELSE {}

\* lines 120-125: the words of x's domain dx collected in `remove`, dy being
\* y's domain and o the overlap of (x, y)
Remove(dx, dy, o) ==
    IF o /= None
    THEN { i \in dx : ~(\E y_element \in dy : i[o[1] + 1] = y_element[o[2] + 1]) }
    ELSE {}

\* lines 126-127 with a flag that is always True
RevisedAlways(doms, x, remove) ==
    [doms    |-> [doms EXCEPT ![x] = doms[x] \ remove],
     revised |-> TRUE]

\* lines 126-127
Revised(doms, x, remove) ==
    [doms    |-> [doms EXCEPT ![x] = doms[x] \ remove],
     revised |-> remove /= {}]

\* revise(x, y): the Domain Store afterwards and the returned flag
Revise(doms, x, y) == Revised(doms, x, Remove(doms[x], doms[y], Overlaps(x, y)))

----------------------------------------------------------------------------
(* ac3: one iteration of `for arc in arcs`; a run is [doms, arcs, k, dom,  *)
(* status], status "run" until the call returns "True" or "False"          *)

\* the arcs (z, x) for the variables z of the sequence zs
ArcsTo(x, zs) == [t \in 1..Len(zs) |-> <<zs[t], x>>]

Ac3Default == SelectSeq(OverlapKeys, LAMBDA i : Overlaps(i[1], i[2]) /= None)

Ac3Start(doms, arcList, domFlag) ==
    [doms |-> doms, arcs |-> arcList, k |-> 1, dom |-> domFlag, status |-> "run"]

\* lines 142-147 without the appends of line 147
Ac3AfterNoAppend(s, x, y, r) ==
    IF r.revised /\ r.doms[x] = {}
    THEN [s EXCEPT !.doms = r.doms, !.status = "False"]
    ELSE [s EXCEPT !.doms = r.doms, !.k = s.k + 1]

\* lines 142-147 with the appends of line 147 made after every revise
Ac3AfterAlwaysAppend(s, x, y, r) ==
    IF r.revised /\ r.doms[x] = {}
    THEN [s EXCEPT !.doms = r.doms, !.status = "False"]
    ELSE IF ~s.dom
    THEN [s EXCEPT !.doms = r.doms,
                   !.arcs = s.arcs \o ArcsTo(x, InOrder(Neighbors(x) \ {y})),
                   !.k = s.k + 1]
    ELSE [s EXCEPT !.doms = r.doms, !.k = s.k + 1]

\* lines 142-147: r is what revise(x, y) did
Ac3After(s, x, y, r) ==
    IF r.revised /\ r.doms[x] = {}
    THEN [s EXCEPT !.doms = r.doms, !.status = "False"]
    ELSE IF r.revised /\ ~s.dom
    THEN [s EXCEPT !.doms = r.doms,
                   !.arcs = s.arcs \o ArcsTo(x, InOrder(Neighbors(x) \ {y})),
                   !.k = s.k + 1]
    ELSE [s EXCEPT !.doms = r.doms, !.k = s.k + 1]

\* lines 141-147 for the arc (x, y)
Ac3Arc(s, x, y) == Ac3After(s, x, y, Revise(s.doms, x, y))

Ac3Step(s) ==
    IF s.k > Len(s.arcs)
    THEN [s EXCEPT !.status = "True"]
    ELSE Ac3Arc(s, s.arcs[s.k][1], s.arcs[s.k][2])

RECURSIVE Ac3Run(_)
Ac3Run(s) == IF s.status /= "run" THEN s ELSE Ac3Run(Ac3Step(s))

\* ac3(arcs, dom): the Domain Store afterwards and the returned value
Ac3(doms, arcList, domFlag) == Ac3Run(Ac3Start(doms, arcList, domFlag))

----------------------------------------------------------------------------
(* assignment_complete, consistent *)

EmptyAssignment == [v \in {} |-> <<>>]

\* `v in assignment and assignment[v]`
Assigned(assignment, v) == v \in DOMAIN assignment /\ assignment[v] /= <<>>

AssignmentComplete(assignment) ==
    IF Cardinality(DOMAIN assignment) = Cardinality(Variables)
    THEN \A v \in DOMAIN assignment : assignment[v] /= <<>>
    ELSE FALSE

\* line 178: the words wn of n and wi of i differ at the overlap o of (n, i)
Conflict(wn, wi, o) == wn[o[1] + 1] /= wi[o[2] + 1]

\* consistent without the seen_values test of lines 169-171
ConsistentNoSeen(assignment) ==
    \A i \in DOMAIN assignment :
        assignment[i] /= <<>> =>
            /\ ~(Len(assignment[i]) /= Length(i))
            /\ \A n \in Neighbors(i) :
                  Assigned(assignment, n) =>
                      ~Conflict(assignment[n], assignment[i], Overlaps(n, i))

Consistent(assignment) ==
    \A i \in DOMAIN assignment :
        assignment[i] /= <<>> =>
            /\ ~(Len(assignment[i]) /= Length(i))
            /\ ~(\E j \in DOMAIN assignment :
                    j /= i /\ assignment[j] /= <<>> /\ assignment[j] = assignment[i])
            /\ \A n \in Neighbors(i) :
                  Assigned(assignment, n) =>
                      ~Conflict(assignment[n], assignment[i], Overlaps(n, i))

----------------------------------------------------------------------------
(* select_unassigned_variable; st = [inf, length, chosen_variable,         *)
(* length_neigh], inf standing for length = float('inf')                   *)

NoVariable == 0

\* lines 230-237 with `Len > length` for `Len < length`
SelectUpdateLargest(st, i, L, neighbor) ==
    IF st.inf \/ L > st.length
    THEN [inf |-> FALSE, length |-> L, chosen_variable |-> i,
          length_neigh |-> neighbor]
    ELSE IF L = st.length
    THEN IF st.length_neigh < neighbor
         THEN [st EXCEPT !.chosen_variable = i]
         ELSE st
    ELSE st

\* lines 230-237: L is len(self.domains[i]), neighbor the degree of i
SelectUpdate(st, i, L, neighbor) ==
    IF st.inf \/ L < st.length
    THEN [inf |-> FALSE, length |-> L, chosen_variable |-> i,
          length_neigh |-> neighbor]
    ELSE IF L = st.length
    THEN IF st.length_neigh < neighbor
         THEN [st EXCEPT !.chosen_variable = i]
         ELSE st
    ELSE st

\* the body of `for i in self.crossword.variables`
SelectStep(doms, assignment, st, i) ==
    IF Assigned(assignment, i)
    THEN st
    ELSE SelectUpdate(st, i, Cardinality(doms[i]), Cardinality(Neighbors(i)))

RECURSIVE SelectLoop(_, _, _, _)
SelectLoop(doms, assignment, st, t) ==
    IF t > Cardinality(Variables) THEN st
    ELSE SelectLoop(doms, assignment,
                    SelectStep(doms, assignment, st, InOrder(Variables)[t]), t + 1)

SelectUnassignedVariable(doms, assignment) ==
    SelectLoop(doms, assignment,
               [inf |-> TRUE, length |-> 0, chosen_variable |-> NoVariable,
                length_neigh |-> 0], 1).chosen_variable

----------------------------------------------------------------------------
(* order_domain_values *)

\* Python's order on strings
WordLess(w1, w2) ==
    \/ \E t \in 1..Len(w1) :
          /\ t <= Len(w2)
          /\ \A u \in 1..(t - 1) : w1[u] = w2[u]
          /\ w1[t] < w2[t]
    \/ Len(w1) < Len(w2) /\ \A u \in 1..Len(w1) : w1[u] = w2[u]

\* the order of sorted(zip(values, domain)) on pairs <<value, word>>
PairLess(p, q) == p[1] < q[1] \/ (p[1] = q[1] /\ WordLess(p[2], q[2]))

RECURSIVE SortedPairs(_)
SortedFrom(least, S) == <<least>> \o SortedPairs(S \ {least})

SortedPairs(S) ==
    IF S = {} THEN <<>>
    ELSE SortedFrom(CHOOSE p \in S : \A q \in S \ {p} : PairLess(p, q), S)

\* the arcs (i, var) for the neighbours i of var
NeighborArcs(var) == ArcsTo(var, InOrder(Neighbors(var)))

\* v_new after one successful probe, ln being list_neighbor
ProbeCount(original, doms, assignment, ln) ==
    SumSeq([t \in 1..Len(ln) |->
              IF ~Assigned(assignment, ln[t])
              THEN Cardinality(original[ln[t]]) - Cardinality(doms[ln[t]])
              ELSE 0])

\* lines 201-207: r is what ac3(neighbor, dom=True) did
Probed(original, var, assignment, pairs, i, r) ==
    IF r.status = "True"
    THEN [doms  |-> r.doms,
          pairs |-> pairs \cup
                      { <<ProbeCount(original, r.doms, assignment,
                                     InOrder(Neighbors(var))), i>> }]
    ELSE [doms |-> r.doms, pairs |-> pairs]

\* one iteration of `for i in original_var_domain`; st = [doms, pairs]
ProbeStep(original, var, assignment, st, i) ==
    Probed(original, var, assignment, st.pairs, i,
           Ac3([st.doms EXCEPT ![var] = {i}], NeighborArcs(var), TRUE))

RECURSIVE ProbeLoop(_, _, _, _, _, _)
ProbeLoop(original, var, assignment, worder, st, t) ==
    IF t > Len(worder) THEN st
    ELSE ProbeLoop(original, var, assignment, worder,
                   ProbeStep(original, var, assignment, st, worder[t]), t + 1)

\* line 210 alone: the neighbours keep what the probes left
RestoreVarOnly(doms, var, probed) ==
    [v \in DOMAIN doms |-> IF v = var THEN doms[v] ELSE probed[v]]

\* lines 208-210: doms is the Domain Store at the call, probed after the probes
Restore(doms, var, probed) ==
    [v \in DOMAIN doms |->
        IF v \in Neighbors(var) \/ v = var THEN doms[v] ELSE probed[v]]

\* lines 211-212
Ordered(restored, sorted) ==
    [doms |-> restored,
     sorted_elements |-> [t \in 1..Len(sorted) |-> sorted[t][2]],
     counts |-> [t \in 1..Len(sorted) |-> sorted[t][1]]]

\* lines 208-212, st being the outcome of the probes
OrderResult(doms, var, st) ==
    Ordered(Restore(doms, var, st.doms), SortedPairs(st.pairs))

\* order_domain_values(var, assignment), the words of domains[var] being
\* iterated in the order worder: the Domain Store afterwards and the list
OrderDomainValues(doms, var, assignment, worder) ==
    OrderResult(doms, var,
                ProbeLoop(doms, var, assignment, worder,
                          [doms |-> doms, pairs |-> {}], 1))

----------------------------------------------------------------------------
(* solve and backtrack.  stack holds one frame per active invocation of    *)
(* backtrack; alias says that the frame's `assignment` is still the dict   *)
(* object its caller passed in, so that a store into it is seen by the     *)
(* caller too.  ret is the value a finished invocation returned; entry     *)
(* remembers the Domain Store an invocation was entered with.              *)

Pending   == [kind |-> "pending", val |-> EmptyAssignment]
RetNone   == [kind |-> "None", val |-> EmptyAssignment]
RetFalse  == [kind |-> "False", val |-> EmptyAssignment]
RetDict(a) == [kind |-> "dict", val |-> a]

\* `if result:`
Truthy(r) == r.kind = "dict" /\ DOMAIN r.val /= {}

NewFrame(assignment, aliased, doms) ==
    [assignment |-> assignment, assignment1 |-> assignment, var |-> NoVariable,
     values |-> <<>>, i |-> 1, domain |-> <<>>, alias |-> aliased, at |-> "entry",
     entry |-> doms]

Top == stack[Len(stack)]

\* assignment[var] = value in the top frame: the store reaches every frame
\* below that shares the dict object
StoreItem(stk, var, value) ==
    [j \in 1..Len(stk) |->
        IF \A t \in (j + 1)..Len(stk) : stk[t].alias
        THEN [stk[j] EXCEPT !.assignment =
                [v \in DOMAIN stk[j].assignment \cup {var} |->
                    IF v = var THEN value ELSE stk[j].assignment[v]]]
        ELSE stk[j]]

\* the stack stk with frame f for its top frame
SetTop(stk, f) == [j \in 1..Len(stk) |-> IF j = Len(stk) THEN f ELSE stk[j]]

\* the top invocation returns r to its caller, or to solve's caller
Return(stk, r) ==
    /\ stack' = SubSeq(stk, 1, Len(stk) - 1)
    /\ ret' = r
    /\ pc' = IF Len(stk) = 1 THEN "done" ELSE pc

\* the vocabularies tried on a puzzle: every vocabulary of the bound on the
\* puzzles of up to four variables; on the two puzzles of five variables,
\* whose sets a run iterates in 11520 combinations of orders, CoreWords
\* with or without the words of ExtraWords
CoreWords(p) ==
    CASE p = "ladder" -> { <<1, 2>>, <<2, 1>>, <<1, 1, 1>>, <<1, 2, 2>>, <<2, 1, 2>> }
      [] p = "comb"   -> { <<1, 1>>, <<1, 2>>, <<2, 2>>, <<1, 1, 1>> }
      [] OTHER        -> {}

ExtraWords(p) ==
    CASE p = "ladder" -> { <<2, 2, 1>> }
      [] p = "comb"   -> { <<2, 1, 2>> }
      [] OTHER        -> {}

PuzzleVocabularies(p) ==
    IF CoreWords(p) = {} THEN Vocabularies
    ELSE { CoreWords(p) \cup X : X \in SUBSET ExtraWords(p) }

InitPuzzle ==
    /\ puz \in PuzzleNames
    /\ vocab \in PuzzleVocabularies(puz)
    /\ so \in SetOrders(IteratedSets)

Idle ==
    /\ arcs = <<>> /\ k = 0 /\ dom = FALSE /\ status = "none"
    /\ pre = <<>> /\ arg = <<>> /\ out = <<>>

Init ==
    /\ InitPuzzle
    /\ domains = [v \in Variables |-> vocab]
    /\ pc = "solve"
    /\ stack = <<>>
    /\ ret = Pending
    /\ Idle

\* solve, line 93
SolveNodeConsistency ==
    /\ pc = "solve"
    /\ domains' = EnforceNodeConsistency(domains)
    /\ pc' = "ac3"
    /\ UNCHANGED <<puz, vocab, so, stack, ret, arcs, k, dom, status, pre, arg, out>>

\* solve, lines 94-95: ac3() with its result dropped, then backtrack(dict())
SolveAc3 ==
    /\ pc = "ac3"
    /\ domains' = Ac3(domains, Ac3Default, FALSE).doms
    /\ pc' = "backtrack"
    /\ stack' = <<NewFrame(EmptyAssignment, FALSE, domains')>>
    /\ UNCHANGED <<puz, vocab, so, ret, arcs, k, dom, status, pre, arg, out>>

\* line 253: the loop starts over what order_domain_values returned
LoopOver(var, o) ==
    /\ domains' = o.doms
    /\ stack' = SetTop(stack, [Top EXCEPT !.var = var,
                                          !.values = o.sorted_elements,
                                          !.at = "loop"])
    /\ UNCHANGED <<ret, pc>>

\* line 253 for the selected variable
OrderFor(var) ==
    \E worder \in Perms(domains[var]) :
        LoopOver(var, OrderDomainValues(domains, var, Top.assignment, worder))

\* backtrack, lines 249-253: up to the evaluation of order_domain_values
BacktrackEntry ==
    /\ pc = "backtrack" /\ stack /= <<>> /\ Top.at = "entry"
    /\ IF AssignmentComplete(Top.assignment)
       THEN /\ Return(stack, RetDict(Top.assignment))
            /\ UNCHANGED domains
       ELSE OrderFor(SelectUnassignedVariable(domains, Top.assignment))
    /\ UNCHANGED <<puz, vocab, so, arcs, k, dom, status, pre, arg, out>>

\* lines 262-264: r is what ac3(neighbor) did, stk the stack after line 254
Propagated(stk, r) ==
    /\ domains' = r.doms
    /\ IF ~(r.status = "True")
       THEN Return(stk, RetFalse)
       ELSE /\ stack' = Append(
                  SetTop(stk, [stk[Len(stk)] EXCEPT !.domain = domains,
                                                    !.at = "call"]),
                  NewFrame(stk[Len(stk)].assignment, TRUE, r.doms))
            /\ UNCHANGED <<ret, pc>>

\* lines 269-270
Rejected(stk) ==
    /\ stack' = SetTop(stk, [stk[Len(stk)] EXCEPT !.assignment = Top.assignment1,
                                                  !.alias = FALSE,
                                                  !.i = Top.i + 1])
    /\ UNCHANGED <<domains, ret, pc>>

\* lines 256-264 without the test of line 255
TriedUnchecked(stk) ==
    Propagated(stk, Ac3([domains EXCEPT ![Top.var] = {Top.values[Top.i]}],
                        NeighborArcs(Top.var), FALSE))

\* lines 255-264 and 269-270 without line 257, the narrowing of var's domain
TriedWide(stk) ==
    IF Consistent(stk[Len(stk)].assignment)
    THEN Propagated(stk, Ac3(domains, NeighborArcs(Top.var), FALSE))
    ELSE Rejected(stk)

\* lines 255-264 and 269-270, stk being the stack after line 254
Tried(stk) ==
    IF Consistent(stk[Len(stk)].assignment)
    THEN Propagated(stk, Ac3([domains EXCEPT ![Top.var] = {Top.values[Top.i]}],
                             NeighborArcs(Top.var), FALSE))
    ELSE Rejected(stk)

\* backtrack, lines 254-264 and 269-270: one candidate, up to the recursive
\* call, the return of False, or the rejection of the candidate
BacktrackTry ==
    /\ pc = "backtrack" /\ stack /= <<>> /\ Top.at = "loop"
    /\ Top.i <= Len(Top.values)
    /\ Tried(StoreItem(stack, Top.var, Top.values[Top.i]))
    /\ UNCHANGED <<puz, vocab, so, arcs, k, dom, status, pre, arg, out>>

\* lines 264-267 without line 268, the restore of the snapshot
BacktrackResumeKeep ==
    /\ pc = "backtrack" /\ stack /= <<>> /\ Top.at = "call"
    /\ ret /= Pending
    /\ IF Truthy(ret)
       THEN /\ Return(stack, ret)
            /\ UNCHANGED domains
       ELSE /\ stack' = SetTop(stack, [Top EXCEPT !.assignment = Top.assignment1,
                                                  !.alias = FALSE,
                                                  !.i = Top.i + 1,
                                                  !.at = "loop"])
            /\ ret' = Pending
            /\ UNCHANGED <<domains, pc>>
    /\ UNCHANGED <<puz, vocab, so, arcs, k, dom, status, pre, arg, out>>

\* backtrack, lines 264-268: the recursive call has returned
BacktrackResume ==
    /\ pc = "backtrack" /\ stack /= <<>> /\ Top.at = "call"
    /\ ret /= Pending
    /\ IF Truthy(ret)
       THEN /\ Return(stack, ret)
            /\ UNCHANGED domains
       ELSE /\ stack' = SetTop(stack, [Top EXCEPT !.assignment = Top.assignment1,
                                                  !.alias = FALSE,
                                                  !.i = Top.i + 1,
                                                  !.at = "loop"])
            /\ domains' = Top.domain
            /\ ret' = Pending
            /\ UNCHANGED pc
    /\ UNCHANGED <<puz, vocab, so, arcs, k, dom, status, pre, arg, out>>

\* backtrack, line 271: the candidates are exhausted
BacktrackExhausted ==
    /\ pc = "backtrack" /\ stack /= <<>> /\ Top.at = "loop"
    /\ Top.i > Len(Top.values)
    /\ Return(stack, RetNone)
    /\ UNCHANGED <<puz, vocab, so, domains, arcs, k, dom, status, pre, arg, out>>

Next ==
    \/ SolveNodeConsistency
    \/ SolveAc3
    \/ BacktrackEntry
    \/ BacktrackTry
    \/ BacktrackResume
    \/ BacktrackExhausted

Spec == Init /\ [][Next]_vars

----------------------------------------------------------------------------
(* ac3 on its own: a run of ac3 from any node-consistent Domain Store, one *)
(* iteration of its loop per step.  pre is the Domain Store at the call.   *)

\* largest number of distinct words in a Domain Store handed to
\* order_domain_values
MaxStoreWords == 3

\* largest vocabulary of a single call of revise, consistent or ac3
MaxCallWords == 2

\* largest number of keys of a dict handed to consistent on its own
MaxKeys == 3

\* the Domain Stores over the first n variables whose words are words of W
\* of the length of their variable
RECURSIVE StoresUpTo(_, _)
StoresUpTo(n, W) ==
    IF n = 0 THEN { <<>> }
    ELSE { Append(d, S) : d \in StoresUpTo(n - 1, W),
                          S \in SUBSET { w \in W : Len(w) = Length(n) } }

\* those that use every word of W
Stores(W) ==
    { d \in StoresUpTo(Cardinality(Variables), W) :
        UNION { d[v] : v \in Variables } = W }

\* the three ways the program calls ac3: ac3() of solve, and, the domain of
\* var being one word, ac3(neighbor) of backtrack and ac3(neighbor, dom=True)
\* of order_domain_values; so orders the sets the call iterates
InitAc3 ==
    /\ puz \in PuzzleNames \ {"ladder", "comb"}
    /\ vocab \in Vocabularies
    /\ Cardinality(vocab) <= MaxCallWords
    /\ domains \in Stores(vocab)
    /\ pre = domains
    /\ \/ /\ so \in SetOrders({Variables} \cup DifferenceSets)
          /\ arcs = Ac3Default
          /\ dom = FALSE
          /\ arg = [arcs |-> arcs, default |-> TRUE]
       \/ \E v \in { u \in Variables : Cardinality(domains[u]) = 1 } :
             \/ /\ so \in SetOrders({Neighbors(v)} \cup DifferenceSets)
                /\ arcs = NeighborArcs(v)
                /\ dom = FALSE
                /\ arg = [arcs |-> arcs, default |-> FALSE]
             \/ /\ so \in SetOrders({Neighbors(v)})
                /\ arcs = NeighborArcs(v)
                /\ dom = TRUE
                /\ arg = [arcs |-> arcs, default |-> FALSE]
    /\ k = 1
    /\ status = "run"
    /\ pc = "ac3 call"
    /\ stack = <<>> /\ ret = Pending /\ out = <<>>

\* the run goes on from s
Ac3Becomes(s) ==
    /\ domains' = s.doms
    /\ arcs' = s.arcs
    /\ k' = s.k
    /\ status' = s.status

\* one iteration of the loop of ac3, or its return
Ac3Iterate ==
    /\ pc = "ac3 call" /\ status = "run"
    /\ Ac3Becomes(Ac3Step([doms |-> domains, arcs |-> arcs, k |-> k,
                           dom |-> dom, status |-> status]))
    /\ UNCHANGED <<puz, vocab, so, pc, stack, ret, dom, pre, arg, out>>

NextAc3 == Ac3Iterate

SpecAc3 == InitAc3 /\ [][NextAc3]_vars

\* ac3 is sequential code: a loop that can make its next iteration makes it
SpecAc3Live == InitAc3 /\ [][NextAc3]_vars /\ WF_vars(NextAc3)

----------------------------------------------------------------------------
(* order_domain_values on its own: one call from a node-consistent Domain  *)
(* Store.  arg holds the arguments and the order in which the words of     *)
(* domains[var] are iterated, out the returned list.  The call reads the   *)
(* domains of var and of its neighbours only: the other variables keep     *)
(* every word of their length.                                             *)

\* the assignments of a Domain Store: some of the variables whose domain is
\* one word, each mapped to that word
Assignments(doms) ==
    { [v \in S |-> CHOOSE w \in doms[v] : TRUE] :
        S \in SUBSET { v \in Variables : Cardinality(doms[v]) = 1 } }

\* so orders the one set the call iterates, neighbors(var)
InitOrder ==
    /\ puz \in PuzzleNames \ {"ladder", "square"}
    /\ vocab \in Vocabularies
    /\ Cardinality(vocab) <= MaxStoreWords
    /\ domains \in Stores(vocab)
    /\ pre = domains
    /\ \E var \in Variables :
         \E assignment \in Assignments(domains) :
           \E worder \in Perms(domains[var]) :
              /\ so \in SetOrders({Neighbors(var)})
              /\ \A v \in Variables \ (Neighbors(var) \cup {var}) :
                    domains[v] = { w \in vocab : Len(w) = Length(v) }
              /\ DOMAIN assignment \subseteq Neighbors(var)
              /\ arg = [var |-> var, assignment |-> assignment, worder |-> worder]
    /\ pc = "order call"
    /\ out = <<>>
    /\ arcs = <<>> /\ k = 0 /\ dom = FALSE /\ status = "none"
    /\ stack = <<>> /\ ret = Pending

\* the call returns o
OrderReturns(o) ==
    /\ domains' = o.doms
    /\ out' = o.sorted_elements

OrderCall ==
    /\ pc = "order call"
    /\ OrderReturns(OrderDomainValues(domains, arg.var, arg.assignment, arg.worder))
    /\ pc' = "order done"
    /\ UNCHANGED <<puz, vocab, so, stack, ret, arcs, k, dom, status, pre, arg>>

NextOrder == OrderCall

SpecOrder == InitOrder /\ [][NextOrder]_vars

----------------------------------------------------------------------------
(* consistent as it runs: the keys of the dict are visited in insertion    *)
(* order, the neighbours of a key in set order, and the call ends at the   *)
(* first return False or at the first index past the end of a word.  On    *)
(* words of the length of their variable no index is past the end and the  *)
(* outcome is "True" exactly when Consistent holds.                        *)

\* lines 174-179 without the comparison of line 178
NeighborLoopSkip(assignment, i, ns, t) == "ok"

\* lines 174-179 from the t-th neighbour on: "ok" when the loop completes
RECURSIVE NeighborLoop(_, _, _, _)
NeighborLoop(assignment, i, ns, t) ==
    IF t > Len(ns) THEN "ok"
    ELSE IF ~Assigned(assignment, ns[t])
    THEN NeighborLoop(assignment, i, ns, t + 1)
    ELSE IF Overlaps(ns[t], i)[1] + 1 > Len(assignment[ns[t]])
    THEN "IndexError"
    ELSE IF Conflict(assignment[ns[t]], assignment[i], Overlaps(ns[t], i))
    THEN "False"
    ELSE NeighborLoop(assignment, i, ns, t + 1)

\* lines 165-180 from the t-th key on, seen being seen_values
RECURSIVE KeyLoop(_, _, _, _)
AfterNeighbors(assignment, keys, t, seen, r) ==
    IF r = "ok"
    THEN KeyLoop(assignment, keys, t + 1, seen \cup {assignment[keys[t]]})
    ELSE r

KeyLoop(assignment, keys, t, seen) ==
    IF t > Len(keys) THEN "True"
    ELSE IF assignment[keys[t]] = <<>>
    THEN KeyLoop(assignment, keys, t + 1, seen)
    ELSE IF Len(assignment[keys[t]]) /= Length(keys[t])
    THEN "False"
    ELSE IF assignment[keys[t]] \in seen
    THEN "False"
    ELSE AfterNeighbors(assignment, keys, t, seen,
                        NeighborLoop(assignment, keys[t],
                                     InOrder(Neighbors(keys[t])), 1))

\* consistent(assignment), keys being the keys of the dict in insertion
\* order: "True", "False" or "IndexError"
ConsistentCall(assignment, keys) == KeyLoop(assignment, keys, 1, {})

----------------------------------------------------------------------------
(* revise and consistent on their own: one call of revise(x, y) from a     *)
(* node-consistent Domain Store, or one call of consistent on any dict of  *)
(* words of the vocabulary, the empty word included.  arg holds the        *)
(* arguments, out the returned value.                                      *)

\* the keys of a dict in insertion order: any order
KeyOrders(S) == Perms(S)

\* the dicts handed to consistent
Dicts ==
    UNION { [S -> vocab \cup {<<>>}] :
              S \in { T \in SUBSET Variables : Cardinality(T) <= MaxKeys } }

ReviseCalls ==
    { c \in [fn : {"revise"}, x : Variables, y : Variables] : c.x /= c.y }

ConsistentCalls ==
    UNION { [fn : {"consistent"}, assignment : {a}, keys : KeyOrders(DOMAIN a)] :
              a \in Dicts }

\* revise iterates no set of variables; consistent iterates the neighbours
\* of each key of the dict
InitCall ==
    /\ puz \in PuzzleNames \ {"comb"}
    /\ vocab \in Vocabularies
    /\ Cardinality(vocab) <= MaxCallWords
    /\ \/ /\ arg \in ReviseCalls
          /\ domains \in Stores(vocab)
          /\ so \in SetOrders({})
       \/ /\ arg \in ConsistentCalls
          /\ domains = EnforceNodeConsistency([v \in Variables |-> vocab])
          /\ so \in SetOrders({ Neighbors(v) : v \in DOMAIN arg.assignment })
    /\ pre = domains
    /\ pc = "call"
    /\ out = <<>>
    /\ arcs = <<>> /\ k = 0 /\ dom = FALSE /\ status = "none"
    /\ stack = <<>> /\ ret = Pending

\* the call of revise returns r
ReviseReturns(r) ==
    /\ domains' = r.doms
    /\ out' = r.revised

CallRevise ==
    /\ pc = "call" /\ arg.fn = "revise"
    /\ ReviseReturns(Revise(domains, arg.x, arg.y))
    /\ pc' = "returned"
    /\ UNCHANGED <<puz, vocab, so, stack, ret, arcs, k, dom, status, pre, arg>>

CallConsistent ==
    /\ pc = "call" /\ arg.fn = "consistent"
    /\ out' = ConsistentCall(arg.assignment, arg.keys)
    /\ pc' = "returned"
    /\ UNCHANGED <<puz, vocab, so, domains, stack, ret, arcs, k, dom, status,
                   pre, arg>>

NextCall == CallRevise \/ CallConsistent

SpecCall == InitCall /\ [][NextCall]_vars

----------------------------------------------------------------------------
(* What the claims speak of *)

\* word w fits variable n next to the words a of the variables 1..n-1
Fits(a, n, w) ==
    \A u \in 1..(n - 1) :
        /\ a[u] /= w
        /\ Overlaps(u, n) /= None =>
              a[u][Overlaps(u, n)[1] + 1] = w[Overlaps(u, n)[2] + 1]

RECURSIVE CanFill(_, _)
CanFill(a, n) ==
    IF n > Cardinality(Variables) THEN TRUE
    ELSE \E w \in { u \in vocab : Len(u) = Length(n) } :
            Fits(a, n, w) /\ CanFill(Append(a, w), n + 1)

\* the puzzle has a satisfying assignment
Satisfiable == CanFill(<<>>, 1)

\* a is a satisfying assignment
ValidFill(a) ==
    /\ DOMAIN a = Variables
    /\ \A v \in Variables : Len(a[v]) = Length(v)
    /\ \A u, v \in Variables : u /= v => a[u] /= a[v]
    /\ \A u, v \in Variables :
          Overlaps(u, v) /= None =>
              a[u][Overlaps(u, v)[1] + 1] = a[v][Overlaps(u, v)[2] + 1]

\* node consistency leaves some domain empty
NodeEmpty == \E v \in Variables : \A w \in vocab : Len(w) /= Length(v)

\* every word of x has a partner in y, for every arc (x, y)
ArcConsistent(doms) ==
    \A x, y \in Variables :
        Overlaps(x, y) /= None =>
            \A w \in doms[x] : \E w2 \in doms[y] :
                w[Overlaps(x, y)[1] + 1] = w2[Overlaps(x, y)[2] + 1]

\* the assignments of one word of its domain to each variable that satisfy
\* every overlap constraint
OverlapSolutions(doms) ==
    { a \in [Variables -> vocab] :
        /\ \A v \in Variables : a[v] \in doms[v]
        /\ \A u, v \in Variables :
              Overlaps(u, v) /= None =>
                  a[u][Overlaps(u, v)[1] + 1] = a[v][Overlaps(u, v)[2] + 1] }

\* the number of words that restricting var to {w} removes from the domains
\* doms of the neighbours of var that assignment does not assign
EliminationCount(doms, var, assignment, w) ==
    LET ln == InOrder(Neighbors(var))
    IN  SumSeq([t \in 1..Len(ln) |->
                  IF Assigned(assignment, ln[t]) THEN 0
                  ELSE Cardinality({ u \in doms[ln[t]] :
                          u[Overlaps(ln[t], var)[1] + 1]
                              /= w[Overlaps(ln[t], var)[2] + 1] })])

----------------------------------------------------------------------------
(* Claims *)

\* C1: an assignment returned by solve() is complete and consistent: every
\* word has the length of its variable, no word is used twice, and
\* neighbouring variables agree at their overlap.
C1_ReturnedAssignmentValid ==
    (pc = "done" /\ ret.kind = "dict") =>
        /\ AssignmentComplete(ret.val)
        /\ ValidFill(ret.val)
        /\ Consistent(ret.val)

C1_Witness ==
    /\ pc = "done" /\ ret.kind = "dict"
    /\ Cardinality(Variables) > 2

\* C2: for a puzzle that has a satisfying assignment, solve() returns a
\* complete assignment, whatever the iteration orders.
C2_SatisfiableIsSolved ==
    (pc = "done" /\ Satisfiable) => (ret.kind = "dict" /\ ValidFill(ret.val))

\* C3: for a puzzle without a satisfying assignment, solve() returns None
\* and nothing else.
C3_UnsatisfiableReturnsNone ==
    (pc = "done" /\ ~Satisfiable) => ret = RetNone

\* C4 as stated: when node consistency leaves a domain empty, solve()
\* returns None and no invocation of backtrack gets to select a variable
\* or order its values.
C4_SearchNeverStarted ==
    NodeEmpty =>
        /\ \A j \in 1..Len(stack) : stack[j].at = "entry"
        /\ pc = "done" => ret = RetNone

\* C4 as amended: when node consistency leaves a domain empty, solve()
\* returns None without trying any candidate: backtrack is entered once,
\* selects a variable whose domain is empty, gets an empty list of values,
\* makes no tentative assignment and no recursive call.
C4_NoCandidateTried ==
    NodeEmpty =>
        /\ Len(stack) <= 1
        /\ \A j \in 1..Len(stack) :
              /\ stack[j].assignment = EmptyAssignment
              /\ stack[j].i = 1
              /\ stack[j].at /= "call"
              /\ stack[j].at = "loop" =>
                    (stack[j].values = <<>> /\ domains[stack[j].var] = {})
        /\ pc = "done" => ret = RetNone

C4_Witness ==
    /\ NodeEmpty
    /\ pc = "done" /\ ret = RetNone
    /\ \E v \in Variables : domains[v] /= {}

\* C5: when ac3() with the default arc list returns True, every word of
\* every domain has a partner in the domain of each neighbour.
C5_Ac3EnforcesArcConsistency ==
    (pc = "ac3 call" /\ status = "True" /\ arg.default) =>
        ArcConsistent(domains)

C5_Witness ==
    /\ pc = "ac3 call" /\ status = "True" /\ arg.default
    /\ Len(arcs) > Len(arg.arcs)
    /\ \E v \in Variables : domains[v] /= pre[v]

\* C6: when a run of ac3 is over, whatever it returned, every assignment of
\* words of the domains at the call that satisfies all overlap constraints
\* still has each of its words in the domain of its variable.
C6_Ac3KeepsSolutions ==
    (pc = "ac3 call" /\ status /= "run") =>
        \A a \in OverlapSolutions(pre) : \A v \in Variables : a[v] \in domains[v]

C6_Witness ==
    /\ pc = "ac3 call" /\ status /= "run"
    /\ OverlapSolutions(pre) /= {}
    /\ \E v \in Variables : domains[v] /= pre[v]

\* C7: ac3 returns True only if no domain is empty on return, and returns
\* False whenever some domain is empty on return.
C7_Ac3ReturnTellsEmptiness ==
    (pc = "ac3 call" /\ status /= "run") =>
        (status = "True" <=> \A v \in Variables : domains[v] /= {})

\* C8: order_domain_values leaves the domain of every variable as it was at
\* the call, also when a probe emptied a neighbour's domain.
C8_OrderLeavesDomains ==
    pc = "order done" => domains = pre

C8_Witness ==
    /\ pc = "order done"
    /\ Len(out) < Cardinality(pre[arg.var])
    /\ \A v \in Variables : pre[v] /= {}

\* C9: order_domain_values returns the candidates in ascending order of the
\* number of words each one, taken alone, removes from the domains at the
\* call of the unassigned neighbours.
C9_OrderedByEliminations ==
    pc = "order done" =>
        \A t, u \in 1..Len(out) :
            t < u => EliminationCount(pre, arg.var, arg.assignment, out[t])
                        <= EliminationCount(pre, arg.var, arg.assignment, out[u])

\* C10: the variable select_unassigned_variable returns is unassigned, has
\* the fewest words in its domain among the unassigned variables, and has
\* the most neighbours among those of them with that many words.
C10_SelectedVariableIsBest ==
    (pc = "backtrack" /\ stack /= <<>> /\ Top.at = "loop" /\ Top.i = 1) =>
        LET unassigned == { v \in Variables : ~Assigned(Top.assignment1, v) }
            fewest == { v \in unassigned :
                          \A u \in unassigned :
                              Cardinality(domains[v]) <= Cardinality(domains[u]) }
        IN  /\ Top.var \in fewest
            /\ \A u \in fewest :
                  Cardinality(Neighbors(u)) <= Cardinality(Neighbors(Top.var))

\* C11: enforce_node_consistency leaves in each domain exactly the words of
\* the previous domain that have the length of the variable.
C11_NodeConsistencyExact ==
    [][pc = "solve" =>
          \A v \in Variables :
              domains'[v] = { w \in domains[v] : Len(w) = Length(v) }]_vars

C11_Witness ==
    /\ pc = "ac3"
    /\ \E v \in Variables : domains[v] /= {} /\ domains[v] /= vocab

\* the words of the dict a that are not empty fit their variables, differ
\* from one another and agree at every overlap
ConstraintsMet(a) ==
    /\ \A v \in DOMAIN a : a[v] /= <<>> => Len(a[v]) = Length(v)
    /\ \A u, v \in DOMAIN a :
          (u /= v /\ a[u] /= <<>> /\ a[v] /= <<>>) => a[u] /= a[v]
    /\ \A u, v \in DOMAIN a :
          (a[u] /= <<>> /\ a[v] /= <<>> /\ Overlaps(u, v) /= None) =>
              a[u][Overlaps(u, v)[1] + 1] = a[v][Overlaps(u, v)[2] + 1]

\* C12: consistent(assignment) returns True exactly when the non-empty words
\* of the assignment have the length of their variable, are pairwise
\* different and agree at the overlaps of neighbouring variables; the call
\* leaves the Domain Store as it was.
C12_ConsistentExact ==
    (pc = "returned" /\ arg.fn = "consistent") =>
        /\ (out = "True") <=> ConstraintsMet(arg.assignment)
        /\ domains = pre

C12_Witness ==
    /\ pc = "returned" /\ arg.fn = "consistent" /\ out = "True"
    /\ \E u, v \in DOMAIN arg.assignment :
          /\ arg.assignment[u] /= <<>> /\ arg.assignment[v] /= <<>>
          /\ Overlaps(u, v) /= None

\* the words of pre[x] without a partner in pre[y] at the overlap of (x, y)
Unsupported(x, y) ==
    IF Overlaps(x, y) = None THEN {}
    ELSE { w \in pre[x] :
             \A w2 \in pre[y] :
                 w[Overlaps(x, y)[1] + 1] /= w2[Overlaps(x, y)[2] + 1] }

\* C17: revise(x, y) removes from x's domain exactly the words without a
\* partner in y's domain, leaves every other domain alone, returns True
\* exactly when x's domain lost a word, and without an overlap changes
\* nothing and returns False.
C17_ReviseExact ==
    (pc = "returned" /\ arg.fn = "revise") =>
        /\ domains[arg.x] = pre[arg.x] \ Unsupported(arg.x, arg.y)
        /\ \A v \in Variables \ {arg.x} : domains[v] = pre[v]
        /\ out = (domains[arg.x] /= pre[arg.x])
        /\ Overlaps(arg.x, arg.y) = None => (domains = pre /\ out = FALSE)

C17_Witness ==
    /\ pc = "returned" /\ arg.fn = "revise" /\ out = TRUE
    /\ domains[arg.x] /= {}
    /\ Cardinality(pre[arg.y]) > 1

\* C13: once an invocation of backtrack has returned False, because the
\* propagation after a tentative assignment emptied a domain, every
\* enclosing invocation returns False in its turn without trying another
\* candidate, up to solve().
C13_FailedPropagationHalts ==
    [][(pc = "backtrack" /\ ret = RetFalse) =>
          (ret' = RetFalse /\ Len(stack') < Len(stack))]_vars

\* C14: each time an invocation of backtrack is about to try a candidate,
\* the Domain Store is the one the invocation was entered with and the
\* assignment is the one it was entered with.
C14_TriesStartFromEntry ==
    (pc = "backtrack" /\ stack /= <<>> /\ Top.at = "loop"
        /\ Top.i <= Len(Top.values)) =>
        /\ domains = Top.entry
        /\ Top.assignment = Top.assignment1

C14_Witness ==
    /\ pc = "backtrack" /\ stack /= <<>> /\ Top.at = "loop"
    /\ Top.i > 1 /\ Top.i <= Len(Top.values)
    /\ Top.domain /= <<>>

\* C15: from an arc-consistent Domain Store without an empty domain,
\* order_domain_values returns every word of var's domain exactly once.
C15_OrderReturnsWholeDomain ==
    (pc = "order done" /\ ArcConsistent(pre)
        /\ \A v \in Variables : pre[v] /= {}) =>
        /\ { out[t] : t \in 1..Len(out) } = pre[arg.var]
        /\ Len(out) = Cardinality(pre[arg.var])

\* C18: when a recursive invocation of backtrack has returned failure, the
\* mapping its caller passed in is as the caller passed it: the caller's
\* entries and the candidate it had set, nothing else.
C18_FailedCalleeLeavesMapping ==
    (pc = "backtrack" /\ stack /= <<>> /\ Top.at = "call"
        /\ ret /= Pending /\ ~Truthy(ret)) =>
        /\ DOMAIN Top.assignment = DOMAIN Top.assignment1 \cup {Top.var}
        /\ \A v \in DOMAIN Top.assignment1 \ {Top.var} :
              Top.assignment[v] = Top.assignment1[v]

\* the keys of the dict the innermost invocation was entered with, in
\* insertion order: line 254 of each enclosing invocation added its variable
\* to the dict it then passed on at line 264
EntryKeys == [t \in 1..(Len(stack) - 1) |-> stack[t].var]

\* C19: at entry to every invocation of backtrack, no two variables of the
\* assignment have the same word, and the assignment satisfies consistent():
\* the call of consistent on the dict, its keys in insertion order, returns
\* True.
C19_EntryAssignmentConsistent ==
    (pc = "backtrack" /\ stack /= <<>> /\ Top.at = "entry") =>
        /\ \A u, v \in DOMAIN Top.assignment :
              u /= v => Top.assignment[u] /= Top.assignment[v]
        /\ Consistent(Top.assignment)
        /\ DOMAIN Top.assignment = { EntryKeys[t] : t \in DOMAIN EntryKeys }
        /\ ConsistentCall(Top.assignment, EntryKeys) = "True"

C19_Witness ==
    /\ pc = "backtrack" /\ stack /= <<>> /\ Top.at = "entry"
    /\ \E u, v \in DOMAIN Top.assignment :
          /\ Overlaps(u, v) /= None
          /\ Length(u) = Length(v)

\* C20: at entry to every invocation of backtrack, the domain of each
\* variable of the assignment holds the word assigned to it and no other.
C20_AssignedDomainsAreSingletons ==
    (pc = "backtrack" /\ stack /= <<>> /\ Top.at = "entry") =>
        \A v \in DOMAIN Top.assignment : domains[v] = { Top.assignment[v] }

C20_Witness ==
    /\ pc = "backtrack" /\ Len(stack) > 1 /\ Top.at = "entry"
    /\ stack[Len(stack) - 1].i > 1
    /\ stack[Len(stack) - 1].domain /= <<>>
    /\ Cardinality(DOMAIN Top.assignment) > 1

\* C16: every run of ac3 ends; during a run no domain gains a word, and the
\* worklist grows only in a step in which a domain lost a word.
C16_Ac3Terminates ==
    /\ <>(status /= "run")
    /\ [][\A v \in Variables : domains'[v] \subseteq domains[v]]_vars
    /\ [][Len(arcs') > Len(arcs) =>
             \E x \in Variables :
                 domains'[x] \subseteq domains[x] /\ domains'[x] /= domains[x]]_vars

C16_Witness ==
    /\ pc = "ac3 call" /\ status = "False"
    /\ Len(arcs) > Len(arg.arcs) /\ k > Len(arg.arcs)

====
